---- MODULE Spec2Model ----
(***************************************************************************)
(* Lottery administration: the lottery_winners table with its constraints  *)
(* and BEFORE triggers (database/*.sql), the callers that write to it      *)
(* (pages/Search.tsx registerWinner, pages/Winners.tsx handleSaveEdit and  *)
(* handleDelete), the ticket <-> diary numbering (lib/supabase.ts) and the *)
(* ticket form that uses it (pages/TicketSales.tsx) with its table         *)
(* ticket_sales.                                                           *)
(*                                                                         *)
(* Text values are sequences of one-character strings.  SQL NULL / JS null *)
(* is the one-element sequence NULL, whose element is no character.        *)
(* Integer columns that are NULL hold 0 (no id, ticket or diary is 0).     *)
(* The timestamp columns and registered_by are not modelled: no trigger,   *)
(* constraint or caller modelled here reads them.                          *)
(***************************************************************************)
EXTENDS Integers, Sequences, FiniteSets, TLC

VARIABLES
    lottery_winners,  \* the rows of table lottery_winners
    nextId,           \* the next value uuid_generate_v4() hands out
    lastOp,           \* the statement the last step sent to lottery_winners, its outcome
    session,          \* per browser session: the Search page's state
    toast,            \* the message the last step showed to its user
    lotteryNumber,    \* numbering: the ticket number typed into the form
    diaryNumber,      \* numbering: the diary the form holds (0: none yet)
    range,            \* numbering: the range looked up for diaryNumber
    watchedLotteryNumber, \* ticket form: the text of its lottery_number field
    diary_id,         \* ticket form: the diary it holds (0: none)
    editingTicket,    \* ticket form: the id of the sale being edited (0: none)
    diaries,          \* ticket page: its array holds the diaries 1 .. diaries
    sales,            \* the rows of table ticket_sales
    nextSaleId,       \* the next id table ticket_sales hands out
    lastSaleOp,       \* the statement the last step sent to ticket_sales, its outcome
    diary_allotments, \* the rows of table diary_allotments
    nextAllotmentId,  \* the next id table diary_allotments hands out
    allotments,       \* diary page: its array of allotments
    lockedRecords,    \* diary page: the ids of the allotments it has locked
    editingAllotment  \* diary page: the id of the allotment being edited (0: none)

vars == <<lottery_winners, nextId, lastOp, session, toast, lotteryNumber, diaryNumber, range,
          watchedLotteryNumber, diary_id, editingTicket, diaries, sales, nextSaleId,
          lastSaleOp, diary_allotments, nextAllotmentId, allotments, lockedRecords,
          editingAllotment>>

\* the ticket page and the table ticket_sales
salesVars == <<watchedLotteryNumber, diary_id, editingTicket, diaries, sales, nextSaleId,
               lastSaleOp>>

\* the diary page and the table diary_allotments
allotmentVars ==
    <<diary_allotments, nextAllotmentId, allotments, lockedRecords, editingAllotment>>

-----------------------------------------------------------------------------
(* Bounds                                                                  *)

\* rows ever inserted (ids are never reused)
MaxId == 2

\* diary allotments ever inserted
MaxAllotments == 1

\* how far apart the two ticket numbers compared for their diaries are
MaxGap == 23

-----------------------------------------------------------------------------
(* Text                                                                    *)

SP == " "
\* a whitespace character other than the space (tab, line feed, ...)
TAB == "\t"
NULL == <<"NULL">>

RECURSIVE StripLeft(_, _)
StripLeft(s, W) ==
    IF s = <<>> \/ Head(s) \notin W THEN s ELSE StripLeft(Tail(s), W)

RECURSIVE StripRight(_, _)
StripRight(s, W) ==
    IF s = <<>> \/ s[Len(s)] \notin W THEN s
    ELSE StripRight(SubSeq(s, 1, Len(s) - 1), W)

\* PostgreSQL TRIM(x): strips the space character only
TRIM(s) == StripRight(StripLeft(s, {SP}), {SP})

\* JavaScript String.prototype.trim(): strips all white space
trim(s) == StripRight(StripLeft(s, {SP, TAB}), {SP, TAB})

LENGTH(s) == Len(s)

Digits == <<"0", "1", "2", "3", "4", "5", "6", "7", "8", "9">>

\* Number.prototype.toString() of a non-negative integer
RECURSIVE toString(_)
toString(n) ==
    IF n < 10 THEN <<Digits[n + 1]>>
    ELSE Append(toString(n \div 10), Digits[(n % 10) + 1])

\* String.prototype.padStart(targetLength, padString) with a one-character pad
RECURSIVE padStart(_, _, _)
padStart(s, targetLength, c) ==
    IF Len(s) >= targetLength THEN s ELSE padStart(<<c>> \o s, targetLength, c)

NaN == "NaN"

\* the value of a digit character
DigitValue == [c \in {Digits[k] : k \in 1 .. 10} |-> CHOOSE v \in 0 .. 9 : Digits[v + 1] = c]

IsDigit(c, radix) == c \in DOMAIN DigitValue /\ DigitValue[c] < radix

\* the value of the longest prefix of s made of digits of the radix
RECURSIVE ParseDigits(_, _, _)
ParseDigits(s, radix, acc) ==
    IF s = <<>> \/ ~IsDigit(Head(s), radix) THEN acc
    ELSE ParseDigits(Tail(s), radix, acc * radix + DigitValue[Head(s)])

\* parseInt(s, radix) for radix <= 10 on text without sign or leading space
parseInt(s, radix) ==
    IF s = <<>> \/ ~IsDigit(Head(s), radix) THEN NaN ELSE ParseDigits(s, radix, 0)

-----------------------------------------------------------------------------
(* Table lottery_winners: errors, triggers, constraints, statements        *)

NoError == [code |-> "", message |-> ""]

\* RAISE EXCEPTION without an error code: SQLSTATE P0001
Raise(msg) == [code |-> "P0001", message |-> msg]

\* the outcome of a trigger function: RETURN new, or the exception raised
Return(new) == [error |-> NoError, row |-> new]
Abort(err, new) == [error |-> err, row |-> new]

TrimTextFields(new) ==
    [new EXCEPT
        !.winner_name = TRIM(new.winner_name),
        !.winner_contact = TRIM(new.winner_contact),
        !.prize_category = TRIM(new.prize_category),
        !.winner_address = IF new.winner_address # NULL
                           THEN TRIM(new.winner_address) ELSE NULL,
        !.notes = IF new.notes # NULL THEN TRIM(new.notes) ELSE NULL]

\* the trigger with its checks and without its TRIM assignments
validate_winner_data_untrimmed(new) ==
    IF new.winner_name = NULL \/ LENGTH(TRIM(new.winner_name)) = 0
    THEN Abort(Raise("winner_name is required and cannot be empty"), new)
    ELSE IF new.winner_contact = NULL \/ LENGTH(TRIM(new.winner_contact)) = 0
    THEN Abort(Raise("winner_contact is required and cannot be empty"), new)
    ELSE IF new.prize_category = NULL \/ LENGTH(TRIM(new.prize_category)) = 0
    THEN Abort(Raise("prize_category is required and cannot be empty"), new)
    ELSE Return(new)

\* BEFORE INSERT ... FOR EACH ROW
validate_winner_data_on_insert(new) ==
    IF new.winner_name = NULL \/ LENGTH(TRIM(new.winner_name)) = 0
    THEN Abort(Raise("winner_name is required and cannot be empty"), new)
    ELSE IF new.winner_contact = NULL \/ LENGTH(TRIM(new.winner_contact)) = 0
    THEN Abort(Raise("winner_contact is required and cannot be empty"), new)
    ELSE IF new.prize_category = NULL \/ LENGTH(TRIM(new.prize_category)) = 0
    THEN Abort(Raise("prize_category is required and cannot be empty"), new)
    ELSE Return(TrimTextFields(new))

\* the trigger without its lottery_number check
prevent_winner_data_loss_any_number(old, new) ==
    IF new.winner_name = NULL \/ LENGTH(TRIM(new.winner_name)) = 0
    THEN Abort(Raise("winner_name cannot be NULL or empty"), new)
    ELSE IF new.winner_contact = NULL \/ LENGTH(TRIM(new.winner_contact)) = 0
    THEN Abort(Raise("winner_contact cannot be NULL or empty"), new)
    ELSE IF new.prize_category = NULL \/ LENGTH(TRIM(new.prize_category)) = 0
    THEN Abort(Raise("prize_category cannot be NULL or empty"), new)
    ELSE Return(TrimTextFields(new))

\* BEFORE UPDATE ... FOR EACH ROW
prevent_winner_data_loss(old, new) ==
    IF new.winner_name = NULL \/ LENGTH(TRIM(new.winner_name)) = 0
    THEN Abort(Raise("winner_name cannot be NULL or empty"), new)
    ELSE IF new.winner_contact = NULL \/ LENGTH(TRIM(new.winner_contact)) = 0
    THEN Abort(Raise("winner_contact cannot be NULL or empty"), new)
    ELSE IF new.prize_category = NULL \/ LENGTH(TRIM(new.prize_category)) = 0
    THEN Abort(Raise("prize_category cannot be NULL or empty"), new)
    ELSE IF new.lottery_number # old.lottery_number
    THEN Abort(Raise("lottery_number cannot be changed"), new)
    ELSE Return(TrimTextFields(new))

\* the column constraints NOT NULL and the three CHECK constraints
\* lottery_winners_*_not_empty, evaluated on the row the trigger returned
not_null_violation == [code |-> "23502", message |-> "not-null constraint"]
check_violation == [code |-> "23514", message |-> "check constraint"]
unique_violation == [code |-> "23505", message |-> "lottery_winners_lottery_number_key"]

ColumnConstraints(r) ==
    IF r.winner_name = NULL \/ r.winner_contact = NULL \/ r.prize_category = NULL
    THEN not_null_violation
    ELSE IF ~ /\ LENGTH(TRIM(r.winner_name)) > 0
              /\ LENGTH(TRIM(r.winner_contact)) > 0
              /\ LENGTH(TRIM(r.prize_category)) > 0
    THEN check_violation
    ELSE NoError

\* the column declared without UNIQUE
NoUniqueIndex(rows, r) == TRUE

\* lottery_number INTEGER NOT NULL UNIQUE: the index refuses a second row
\* (other than the row being written) with the same number
UniqueLotteryNumber(rows, r) ==
    \A w \in rows : w.id # r.id => w.lottery_number # r.lottery_number

\* an insert that writes the row and reports the unique violation afterwards
insert_then_check(rows, new) ==
    LET t == validate_winner_data_on_insert(new)
        c == ColumnConstraints(t.row)
    IN  IF t.error # NoError THEN [error |-> t.error, rows |-> rows]
        ELSE IF c # NoError THEN [error |-> c, rows |-> rows]
        ELSE IF ~UniqueLotteryNumber(rows, t.row)
        THEN [error |-> unique_violation, rows |-> rows \cup {t.row}]
        ELSE [error |-> NoError, rows |-> rows \cup {t.row}]

\* INSERT INTO lottery_winners: trigger, constraints, unique index, commit.
\* An error aborts the statement: the table is as before.
insert(rows, new) ==
    LET t == validate_winner_data_on_insert(new)
        c == ColumnConstraints(t.row)
    IN  IF t.error # NoError THEN [error |-> t.error, rows |-> rows]
        ELSE IF c # NoError THEN [error |-> c, rows |-> rows]
        ELSE IF ~UniqueLotteryNumber(rows, t.row)
        THEN [error |-> unique_violation, rows |-> rows]
        ELSE [error |-> NoError, rows |-> rows \cup {t.row}]

\* the row replaced as a whole: the columns SET does not name, other than
\* the key and the number, fall back to their defaults
AssignReplace(old, SET) ==
    [c \in DOMAIN old |->
        IF c \in DOMAIN SET THEN SET[c]
        ELSE IF c \in {"id", "lottery_number", "prize_quantity"} THEN old[c]
        ELSE IF c \in {"ticket_sale_id", "diary_number"} THEN 0
        ELSE NULL]

\* the row an UPDATE ... SET proposes: old with the SET columns replaced
Assign(old, SET) ==
    [c \in DOMAIN old |-> IF c \in DOMAIN SET THEN SET[c] ELSE old[c]]

\* UPDATE lottery_winners SET ... WHERE id = id.  No row with that id: the
\* statement succeeds and changes nothing (no trigger fires).
update(rows, id, SET) ==
    IF \A w \in rows : w.id # id THEN [error |-> NoError, rows |-> rows]
    ELSE
    LET old == CHOOSE w \in rows : w.id = id
        t == prevent_winner_data_loss(old, Assign(old, SET))
        c == ColumnConstraints(t.row)
    IN  IF t.error # NoError THEN [error |-> t.error, rows |-> rows]
        ELSE IF c # NoError THEN [error |-> c, rows |-> rows]
        ELSE IF ~UniqueLotteryNumber(rows, t.row)
        THEN [error |-> unique_violation, rows |-> rows]
        ELSE [error |-> NoError, rows |-> (rows \ {old}) \cup {t.row}]

\* a delete filtered on the category of the row instead of its id
deleteCategory(rows, id) ==
    {w \in rows : \A v \in rows : v.id = id => w.prize_category # v.prize_category}

\* DELETE FROM lottery_winners WHERE id = id
delete(rows, id) == {w \in rows : w.id # id}

-----------------------------------------------------------------------------
(* lib/supabase.ts: prize categories and the ticket <-> diary numbering    *)

\* two of the 28 entries: 'THAR CAR' (written T) and 'Electric Bike' (E)
PRIZE_CATEGORIES ==
    << [name |-> <<"T">>, quantity |-> 1],
       [name |-> <<"E">>, quantity |-> 3] >>

PrizeNames == {PRIZE_CATEGORIES[i].name : i \in DOMAIN PRIZE_CATEGORIES}

\* the quotient rounded down, plus one
CeilOfNext(a, b) == (a \div b) + 1

\* Math.ceil(a / b) for integers a and b > 0
Ceil(a, b) == (a + b - 1) \div b

\* the numbers above 39996 sent to the first diary
getDiaryFromLotteryNumberFirst(n) ==
    IF n <= 39996 THEN Ceil(n, 22) ELSE 1

\* Math.floor in place of Math.ceil
getDiaryFromLotteryNumberFloor(n) ==
    IF n <= 39996 THEN n \div 22 ELSE 1819

getDiaryFromLotteryNumber(n) ==
    IF n <= 39996 THEN Ceil(n, 22) ELSE 1819

\* the start of a range computed without its + 1
getTicketRangeForDiaryFromEnd(d) ==
    IF d = 1819 THEN [start |-> 39997, end |-> 39999]
    ELSE [start |-> (d - 1) * 22, end |-> d * 22]

\* the last diary computed like the others
getTicketRangeForDiaryNoLast(d) ==
    [start |-> (d - 1) * 22 + 1, end |-> d * 22]

getTicketRangeForDiary(d) ==
    IF d = 1819 THEN [start |-> 39997, end |-> 39999]
    ELSE [start |-> (d - 1) * 22 + 1, end |-> d * 22]

\* the comparison with the end of the range left strict
validateLotteryNumberForDiaryStrict(lotteryNum, diaryNum) ==
    LET r == getTicketRangeForDiary(diaryNum)
    IN  lotteryNum >= r.start /\ lotteryNum < r.end

\* the comparison with the end of the range left out
validateLotteryNumberForDiaryFromStart(lotteryNum, diaryNum) ==
    LET r == getTicketRangeForDiary(diaryNum)
    IN  lotteryNum >= r.start

validateLotteryNumberForDiary(lotteryNum, diaryNum) ==
    LET r == getTicketRangeForDiary(diaryNum)
    IN  lotteryNum >= r.start /\ lotteryNum <= r.end

formatLotteryNumber(n) == padStart(toString(n), 5, "0")

\* the text read in base 8, as for a literal with a leading 0
parseLotteryNumberOctal(lotteryNumberString) == parseInt(lotteryNumberString, 8)

parseLotteryNumber(lotteryNumberString) == parseInt(lotteryNumberString, 10)

-----------------------------------------------------------------------------
(* Statements sent straight to the table (any client of the database)      *)

Statement(kind, error) == [kind |-> kind, error |-> error]
NoStatement == Statement("none", NoError)

\* toast.error / toast.success
Toast(message) == [message |-> message]
NoToast == Toast("")

\* the text columns of a proposed row: every column takes each of its values
\* while the others hold a plain one
NameTexts == {NULL, <<>>, <<SP>>, <<TAB>>, <<"A">>, <<SP, "A", SP>>}
ContactTexts == {NULL, <<SP, SP>>, <<"A">>, <<"A", SP>>}
CategoryTexts == {NULL, <<>>, <<"T">>, <<SP, "E">>}
AddressTexts == {NULL, <<SP>>, <<"A", SP>>, <<"A", TAB>>}
NotesTexts == {NULL, <<SP, "A">>}

PlainText ==
    [winner_name |-> <<"A">>, winner_contact |-> <<"A">>, prize_category |-> <<"T">>,
     winner_address |-> NULL, notes |-> NULL]

TextColumns ==
    LET all == [winner_name : NameTexts, winner_contact : ContactTexts,
                prize_category : CategoryTexts,
                winner_address : AddressTexts, notes : NotesTexts]
    IN  {t \in all : Cardinality({c \in DOMAIN t : t[c] # PlainText[c]}) <= 1}

\* the lottery numbers of the proposed rows
StoreNumbers == {105, 106}

ProposedRow(n, t) ==
    [id |-> 0, lottery_number |-> n, ticket_sale_id |-> 0,
     prize_category |-> t.prize_category, prize_quantity |-> 1,
     winner_name |-> t.winner_name, winner_contact |-> t.winner_contact,
     winner_address |-> t.winner_address, diary_number |-> 0, notes |-> t.notes]

ProposedSet(n, t) ==
    [lottery_number |-> n, prize_category |-> t.prize_category,
     winner_name |-> t.winner_name, winner_contact |-> t.winner_contact,
     winner_address |-> t.winner_address, notes |-> t.notes]

\* INSERT: id takes its DEFAULT uuid_generate_v4()
InsertRow(new) ==
    /\ nextId <= MaxId
    /\ LET r == insert(lottery_winners, [new EXCEPT !.id = nextId])
       IN  /\ lottery_winners' = r.rows
           /\ nextId' = IF r.error = NoError THEN nextId + 1 ELSE nextId
           /\ lastOp' = Statement("insert", r.error)
    /\ toast' = NoToast
    /\ UNCHANGED <<session, lotteryNumber, allotmentVars, diaryNumber, range, salesVars>>

UpdateRow(id, SET) ==
    /\ LET r == update(lottery_winners, id, SET)
       IN  /\ lottery_winners' = r.rows
           /\ lastOp' = Statement("update", r.error)
    /\ toast' = NoToast
    /\ UNCHANGED <<nextId, session, lotteryNumber, allotmentVars, diaryNumber, range, salesVars>>

DeleteRow(id) ==
    /\ lottery_winners' = delete(lottery_winners, id)
    /\ lastOp' = Statement("delete", NoError)
    /\ toast' = NoToast
    /\ UNCHANGED <<nextId, session, lotteryNumber, allotmentVars, diaryNumber, range, salesVars>>

-----------------------------------------------------------------------------
(* pages/Search.tsx: winner registration                                   *)

\* the ticket sales the Search page lists (rows of ticket_sales with the
\* joined diary; diary = FALSE when the sale has none)
ticket_sales ==
    { [id |-> 1, lottery_number |-> 22, purchaser_name |-> <<"A", SP>>,
       purchaser_contact |-> <<"A">>, purchaser_address |-> NULL, diary |-> TRUE],
      [id |-> 2, lottery_number |-> 23, purchaser_name |-> <<"A">>,
       purchaser_contact |-> <<SP, "A">>, purchaser_address |-> <<SP>>, diary |-> FALSE],
      [id |-> 3, lottery_number |-> 39997, purchaser_name |-> <<TAB>>,
       purchaser_contact |-> <<"A">>, purchaser_address |-> NULL, diary |-> TRUE],
      [id |-> 4, lottery_number |-> 44, purchaser_name |-> NULL,
       purchaser_contact |-> <<"A">>, purchaser_address |-> NULL, diary |-> TRUE],
      [id |-> 5, lottery_number |-> 45, purchaser_name |-> <<"A">>,
       purchaser_contact |-> <<>>, purchaser_address |-> NULL, diary |-> TRUE],
      [id |-> 6, lottery_number |-> 46, purchaser_name |-> <<"A">>,
       purchaser_contact |-> <<TAB, SP>>, purchaser_address |-> NULL, diary |-> TRUE] }

NoTicket ==
    [id |-> 0, lottery_number |-> 0, purchaser_name |-> NULL,
     purchaser_contact |-> NULL, purchaser_address |-> NULL, diary |-> FALSE]

Sessions == {"s1", "s2"}

\* what the prize <select> can hold: '' or a category name
SelectablePrizes == {<<>>} \cup PrizeNames

Idle(existing) ==
    [pc |-> "idle", ticket |-> NoTicket, prize |-> <<>>, existingWinners |-> existing]

LotteryNumbers(rows) == {w.lottery_number : w \in rows}

getPrizeQuantity(prizeName) ==
    IF \E i \in DOMAIN PRIZE_CATEGORIES : PRIZE_CATEGORIES[i].name = prizeName
    THEN PRIZE_CATEGORIES[CHOOSE i \in DOMAIN PRIZE_CATEGORIES :
                              PRIZE_CATEGORIES[i].name = prizeName].quantity
    ELSE 0

\* the total of the category, the winners it has not counted
getRemainingQuantityTotal(rows, prizeName, queryOk) ==
    IF queryOk THEN getPrizeQuantity(prizeName) ELSE 0

\* select('id').eq('prize_category', prizeName); a failed query counts as
\* nothing remaining
getRemainingQuantity(rows, prizeName, queryOk) ==
    IF queryOk
    THEN getPrizeQuantity(prizeName)
         - Cardinality({w \in rows : w.prize_category = prizeName})
    ELSE 0

\* x?.trim(), an empty result kept
TrimKeepEmpty(x) == IF x = NULL THEN NULL ELSE trim(x)

\* x?.trim() || null
TrimOrNull(x) == IF x = NULL \/ trim(x) = <<>> THEN NULL ELSE trim(x)

\* the test for a missing value only
BlankMissingOnly(x) == x = NULL

\* !x || x.trim().length === 0
Blank(x) == x = NULL \/ x = <<>> \/ LENGTH(trim(x)) = 0

WinnerFromTicket(ticket, selectedPrizeCategory) ==
    [id |-> 0,
     lottery_number |-> ticket.lottery_number,
     ticket_sale_id |-> ticket.id,
     prize_category |-> trim(selectedPrizeCategory),
     prize_quantity |-> getPrizeQuantity(selectedPrizeCategory),
     winner_name |-> trim(ticket.purchaser_name),
     winner_contact |-> trim(ticket.purchaser_contact),
     winner_address |-> TrimOrNull(ticket.purchaser_address),
     diary_number |-> IF ticket.diary
                      THEN getDiaryFromLotteryNumber(ticket.lottery_number) ELSE 0,
     notes |-> NULL]

\* useEffect on mount: fetchExistingWinners
Mount(s) ==
    /\ session[s].pc = "idle"
    /\ session' = [session EXCEPT ![s] = Idle(LotteryNumbers(lottery_winners))]
    /\ lastOp' = NoStatement
    /\ toast' = NoToast
    /\ UNCHANGED <<lottery_winners, nextId, lotteryNumber, allotmentVars, diaryNumber, range, salesVars>>

\* registerWinner up to the insert request: the local checks, the quantity
\* query (the table is read here) and the validation of the ticket
registerWinner(s, ticket, selectedPrizeCategory, queryOk) ==
    /\ session[s].pc = "idle"
    /\ LET existing == session[s].existingWinners
           remaining == getRemainingQuantity(lottery_winners, selectedPrizeCategory, queryOk)
           refused ==
             IF selectedPrizeCategory = <<>> THEN "Please select a prize category"
             ELSE IF ticket.lottery_number \in existing THEN "has already won a prize"
             ELSE IF remaining <= 0 THEN "No prizes remaining"
             ELSE IF Blank(ticket.purchaser_name) THEN "purchaser name is missing or empty"
             ELSE IF Blank(ticket.purchaser_contact)
             THEN "purchaser contact is missing or empty"
             ELSE ""
       IN  IF refused # ""
           THEN /\ toast' = Toast(refused)
                /\ UNCHANGED session
           ELSE /\ session' = [session EXCEPT ![s] =
                      [pc |-> "insert", ticket |-> ticket,
                       prize |-> selectedPrizeCategory, existingWinners |-> existing]]
                /\ toast' = NoToast
    /\ lastOp' = NoStatement
    /\ UNCHANGED <<lottery_winners, nextId, lotteryNumber, allotmentVars, diaryNumber, range, salesVars>>

\* every error answered with the generic message
InsertMessageGeneric(error) ==
    IF error = NoError THEN "Winner registered" ELSE "Failed to register winner"

\* the message registerWinner shows for the answer to its insert
InsertMessage(error) ==
    IF error = NoError THEN "Winner registered"
    ELSE IF error.code = "23505" THEN "has already won a prize"
    ELSE "Failed to register winner"

\* the insert reaches the table and its answer is handled
registerWinnerInsert(s) ==
    /\ session[s].pc = "insert"
    /\ nextId <= MaxId
    /\ LET ticket == session[s].ticket
           existing == session[s].existingWinners
           new == WinnerFromTicket(ticket, session[s].prize)
           r == insert(lottery_winners, [new EXCEPT !.id = nextId])
       IN  /\ lottery_winners' = r.rows
           /\ nextId' = IF r.error = NoError THEN nextId + 1 ELSE nextId
           /\ lastOp' = Statement("insert", r.error)
           /\ session' = [session EXCEPT ![s] =
                IF r.error = NoError THEN Idle(existing \cup {ticket.lottery_number})
                ELSE IF r.error.code = "23505"
                THEN [Idle(existing) EXCEPT !.pc = "refresh", !.ticket = ticket]
                ELSE Idle(existing)]
           /\ toast' = Toast(InsertMessage(r.error))
    /\ UNCHANGED <<lotteryNumber, allotmentVars, diaryNumber, range, salesVars>>

\* the winners the session knows kept as they are
registerWinnerRefreshNone(s, queryOk) ==
    /\ session[s].pc = "refresh"
    /\ session' = [session EXCEPT ![s] = Idle(session[s].existingWinners)]
    /\ UNCHANGED <<lottery_winners, nextId, lastOp, toast, lotteryNumber, allotmentVars, diaryNumber,
                   range, salesVars>>

\* after a unique violation: select('lottery_number'), kept when it answers;
\* the rest of the handler sends no statement to the table and shows no
\* message, the outcome of the insert stands
registerWinnerRefresh(s, queryOk) ==
    /\ session[s].pc = "refresh"
    /\ session' = [session EXCEPT ![s] =
         Idle(IF queryOk THEN LotteryNumbers(lottery_winners)
              ELSE session[s].existingWinners)]
    /\ UNCHANGED <<lottery_winners, nextId, lastOp, toast, lotteryNumber, allotmentVars, diaryNumber,
                   range, salesVars>>

-----------------------------------------------------------------------------
(* pages/Winners.tsx: editing and deleting winners                         *)

\* what the edit form can hold when Save Changes is clicked
EditForms ==
    [prize_category : PrizeNames, winner_name : {<<>>, <<"A", SP>>},
     winner_contact : {<<"A">>}, winner_address : {NULL}, notes : {NULL}]

\* the ids the Winners page can hold: rows fetched at some time
KnownIds == 1 .. (nextId - 1)

handleSaveEdit(id, updatedData) ==
    /\ LET r == update(lottery_winners, id, updatedData)
       IN  /\ lottery_winners' = r.rows
           /\ lastOp' = Statement("update", r.error)
           /\ toast' = Toast(IF r.error = NoError
                            THEN "Winner entry updated successfully"
                            ELSE "Failed to update winner entry")
    /\ UNCHANGED <<nextId, session, lotteryNumber, allotmentVars, diaryNumber, range, salesVars>>

handleDelete(winnerId) ==
    /\ lottery_winners' = delete(lottery_winners, winnerId)
    /\ lastOp' = Statement("delete", NoError)
    /\ toast' = Toast("Winner entry deleted successfully")
    /\ UNCHANGED <<nextId, session, lotteryNumber, allotmentVars, diaryNumber, range, salesVars>>

-----------------------------------------------------------------------------------------------------------------------------------------------------
(* Table ticket_sales, as its callers in pages/TicketSales.tsx use it: a   *)
(* row is id, lottery_number and diary_id (the diary's number stands for   *)
(* its id); the purchaser, issuer, date and amount columns are not         *)
(* modelled: no step modelled here reads them.                             *)

\* lottery_number is unique: the callers handle error 23505 on it
insertSale(rows, new) ==
    IF \E r \in rows : r.lottery_number = new.lottery_number
    THEN [error |-> unique_violation, rows |-> rows]
    ELSE [error |-> NoError, rows |-> rows \cup {new}]

\* UPDATE ticket_sales SET lottery_number, diary_id WHERE id = id
updateSale(rows, id, SET) ==
    IF \A r \in rows : r.id # id THEN [error |-> NoError, rows |-> rows]
    ELSE LET old == CHOOSE r \in rows : r.id = id
             new == [id |-> id, lottery_number |-> SET.lottery_number,
                     diary_id |-> SET.diary_id]
         IN  IF \E r \in rows \ {old} : r.lottery_number = new.lottery_number
             THEN [error |-> unique_violation, rows |-> rows]
             ELSE [error |-> NoError, rows |-> (rows \ {old}) \cup {new}]

deleteSale(rows, id) == {r \in rows : r.id # id}

-----------------------------------------------------------------------------
(* pages/TicketSales.tsx: the ticket form                                  *)

\* what the query for the diaries answers: an error, all 1819 rows, or the
\* first 1000 when the API caps the rows of one answer
FetchAnswers ==
    { [ok |-> FALSE, rows |-> 0], [ok |-> TRUE, rows |-> 1000],
      [ok |-> TRUE, rows |-> 1819] }

\* the ticket numbers and diaries the operator of the ticket page works with
SaleNumbers == {22, 23, 39997}
FormDiaries == {1, 2, 1819}

NoRange == [start |-> 0, end |-> 0]

\* fetchData: the diaries of the answer replace the page's array; a failed
\* query leaves it as it was
Fetched(answer) == IF answer.ok THEN answer.rows ELSE diaries

\* useEffect on mount
fetchData(answer) ==
    /\ diaries' = Fetched(answer)
    /\ toast' = IF answer.ok THEN NoToast ELSE Toast("Failed to fetch data")
    /\ lastSaleOp' = NoStatement
    /\ UNCHANGED <<lottery_winners, nextId, lastOp, session, lotteryNumber, allotmentVars, diaryNumber,
                   range, watchedLotteryNumber, diary_id, editingTicket, sales, nextSaleId>>

\* the operator types the 5-digit number printed on ticket n
TypeLotteryNumber(n) ==
    /\ watchedLotteryNumber' = formatLotteryNumber(n)
    /\ toast' = NoToast
    /\ lastSaleOp' = NoStatement
    /\ UNCHANGED <<lottery_winners, nextId, lastOp, session, lotteryNumber, allotmentVars, diaryNumber,
                   range, diary_id, editingTicket, diaries, sales, nextSaleId>>

\* useEffect on watchedLotteryNumber and the handler it calls: the diary of
\* the number is looked up in the page's array (diaries up to 1000) or on the
\* server (above 1000) and fills the form
handleLotteryNumberChange(serverOk, allotted) ==
    /\ Len(watchedLotteryNumber) = 5
    /\ \E lotteryNum \in {parseLotteryNumber(watchedLotteryNumber)} :
       \E d \in {getDiaryFromLotteryNumber(lotteryNum)} :
           /\ lotteryNum >= 1 /\ lotteryNum <= 39999
           /\ diaryNumber' = d
           /\ IF d > 1000 /\ ~serverOk
              THEN toast' = NoToast /\ UNCHANGED diary_id
              ELSE IF d > 1000 \/ d <= diaries
              THEN /\ diary_id' = d
                   /\ toast' = Toast(IF allotted THEN "Auto-filled diary details"
                                     ELSE "Diary is not allotted to any issuer")
              ELSE toast' = Toast("Diary not found") /\ UNCHANGED diary_id
    /\ range' = NoRange
    /\ lastSaleOp' = NoStatement
    /\ UNCHANGED <<lottery_winners, nextId, lastOp, session, lotteryNumber, allotmentVars,
                   watchedLotteryNumber, editingTicket, diaries, sales, nextSaleId>>

\* the range of the diary computed for the number
LookupRange ==
    /\ diaryNumber # 0
    /\ range' = getTicketRangeForDiary(diaryNumber)
    /\ toast' = NoToast
    /\ lastSaleOp' = NoStatement
    /\ UNCHANGED <<lottery_winners, nextId, lastOp, session, lotteryNumber, allotmentVars, diaryNumber,
                   watchedLotteryNumber, diary_id, editingTicket, diaries, sales, nextSaleId>>

\* a suggestion is clicked: the suggestions come from the page's array or,
\* for a diary above 1000 missing from it, from the server
handleDiarySelect(d) ==
    /\ d <= diaries \/ d > 1000
    /\ diary_id' = d
    /\ toast' = NoToast
    /\ lastSaleOp' = NoStatement
    /\ UNCHANGED <<lottery_winners, nextId, lastOp, session, lotteryNumber, allotmentVars, diaryNumber,
                   range, watchedLotteryNumber, editingTicket, diaries, sales, nextSaleId>>

\* setValue('lottery_number', ticket.lottery_number): the field holds the
\* number as it is, without padding
handleEdit(ticket) ==
    /\ editingTicket' = ticket.id
    /\ watchedLotteryNumber' = toString(ticket.lottery_number)
    /\ diary_id' = ticket.diary_id
    /\ toast' = NoToast
    /\ lastSaleOp' = NoStatement
    /\ UNCHANGED <<lottery_winners, nextId, lastOp, session, lotteryNumber, allotmentVars, diaryNumber,
                   range, diaries, sales, nextSaleId>>

handleCancel ==
    /\ watchedLotteryNumber' = <<>>
    /\ diary_id' = 0
    /\ editingTicket' = 0
    /\ toast' = NoToast
    /\ lastSaleOp' = NoStatement
    /\ UNCHANGED <<lottery_winners, nextId, lastOp, session, lotteryNumber, allotmentVars, diaryNumber,
                   range, diaries, sales, nextSaleId>>

\* what handleSubmit lets through: pattern /^[0-9]{5}$/, 1 <= value <= 39999
\* and a diary (required)
FormValid ==
    /\ Len(watchedLotteryNumber) = 5
    /\ \A i \in 1 .. 5 : IsDigit(watchedLotteryNumber[i], 10)
    /\ parseLotteryNumber(watchedLotteryNumber) >= 1
    /\ parseLotteryNumber(watchedLotteryNumber) <= 39999
    /\ diary_id # 0

SaveMessage(error, success, fetchOk) ==
    IF error = NoError
    THEN IF fetchOk THEN success ELSE "Failed to fetch data"
    ELSE IF error.code = "23505" THEN "Lottery number already exists"
    ELSE "Failed to save ticket"

\* onSubmit, with the fetchData that follows a saved ticket
onSubmit(answer) ==
    /\ FormValid
    /\ \E lotteryNum \in {parseLotteryNumber(watchedLotteryNumber)} :
       \E r \in {IF editingTicket # 0
                 THEN updateSale(sales, editingTicket,
                                 [lottery_number |-> lotteryNum, diary_id |-> diary_id])
                 ELSE insertSale(sales, [id |-> nextSaleId, lottery_number |-> lotteryNum,
                                         diary_id |-> diary_id])} :
       LET found == diary_id <= diaries
       IN  IF diary_id # 0 /\ found /\ ~validateLotteryNumberForDiary(lotteryNum, diary_id)
           THEN /\ toast' = Toast("Lottery number is not valid for diary")
                /\ lastSaleOp' = NoStatement
                /\ UNCHANGED <<watchedLotteryNumber, diary_id, editingTicket, diaries,
                               sales, nextSaleId>>
           ELSE /\ editingTicket = 0 => nextSaleId <= MaxId
                /\ sales' = r.rows
                /\ lastSaleOp' = Statement(IF editingTicket # 0 THEN "update" ELSE "insert",
                                           r.error)
                /\ nextSaleId' = IF editingTicket = 0 /\ r.error = NoError
                                 THEN nextSaleId + 1 ELSE nextSaleId
                /\ toast' = Toast(SaveMessage(r.error,
                                     IF editingTicket # 0 THEN "Ticket updated successfully"
                                     ELSE "Ticket added successfully", answer.ok))
                /\ IF r.error = NoError
                   THEN /\ watchedLotteryNumber' = <<>>
                        /\ diary_id' = 0
                        /\ editingTicket' = 0
                        /\ diaries' = Fetched(answer)
                   ELSE UNCHANGED <<watchedLotteryNumber, diary_id, editingTicket, diaries>>
    /\ UNCHANGED <<lottery_winners, nextId, lastOp, session, lotteryNumber, allotmentVars, diaryNumber, range>>

\* handleDelete of the ticket page, with the fetchData that follows
handleDeleteSale(ticketId, answer) ==
    /\ sales' = deleteSale(sales, ticketId)
    /\ lastSaleOp' = Statement("delete", NoError)
    /\ diaries' = Fetched(answer)
    /\ toast' = Toast(IF answer.ok THEN "Ticket deleted successfully"
                      ELSE "Failed to fetch data")
    /\ UNCHANGED <<lottery_winners, nextId, lastOp, session, lotteryNumber, allotmentVars, diaryNumber,
                   range, watchedLotteryNumber, diary_id, editingTicket, nextSaleId>>

-----------------------------------------------------------------------------
(* pages/DiaryManagement.tsx: diary allotments.  A row of diary_allotments  *)
(* is id, diary_id (the diary's number stands for its id), status and      *)
(* amount_collected; issuer, date and notes are not modelled: no step      *)
(* modelled here reads them.                                               *)

Statuses == {"allotted", "fully_sold", "paid", "returned"}

\* the amount collected for a paid diary
PAID_AMOUNT == 11000

\* the diaries the allotment form is filled with
AllotmentDiaries == {1, 1819}

\* what the server answers to a statement on diary_allotments
AllotmentErrors == {"", "23505", "other"}

PaidIds(rows) == {a.id : a \in {r \in rows : r.status = "paid"}}

\* the amount written for 'paid' only, left as it is for any other status
updateDataPaidOnly(status) ==
    IF status = "paid" THEN [status |-> status, amount_collected |-> PAID_AMOUNT]
    ELSE [status |-> status]

\* const updateData = { status }, then amount_collected by status
updateData(status) ==
    [status |-> status,
     amount_collected |-> IF status = "paid" THEN PAID_AMOUNT ELSE 0]

\* UPDATE diary_allotments SET ... WHERE id = id, also prev.map(...) on the
\* page's array
UpdateAllotment(rows, id, SET) ==
    {IF a.id = id THEN Assign(a, SET) ELSE a : a \in rows}

\* fetchData as the handlers of the diary page call it when they are done: its
\* answer replaces the array and locks the paid records; a failed fetch
\* leaves the page as the handler left it
Refetched(fetchOk, table, array, locks, message) ==
    /\ allotments' = IF fetchOk THEN table ELSE array
    /\ lockedRecords' = IF fetchOk THEN PaidIds(table) ELSE locks
    /\ toast' = Toast(IF fetchOk THEN message ELSE "Failed to fetch data")

\* useEffect on mount
fetchDataAllotments(fetchOk) ==
    /\ allotments' = IF fetchOk THEN diary_allotments ELSE allotments
    /\ lockedRecords' = IF fetchOk THEN PaidIds(diary_allotments) ELSE lockedRecords
    /\ toast' = IF fetchOk THEN NoToast ELSE Toast("Failed to fetch data")
    /\ UNCHANGED <<lottery_winners, nextId, lastOp, session, lotteryNumber, diaryNumber,
                   range, salesVars, diary_allotments, nextAllotmentId, editingAllotment>>

handleEditAllotment(allotment) ==
    /\ editingAllotment' = allotment.id
    /\ toast' = NoToast
    /\ UNCHANGED <<lottery_winners, nextId, lastOp, session, lotteryNumber, diaryNumber,
                   range, salesVars, diary_allotments, nextAllotmentId, allotments,
                   lockedRecords>>

\* the allotment form is submitted with diary data_diary_id: a new allotment
\* starts as 'allotted' with nothing collected, an edit leaves status and
\* amount alone
onSubmitAllotment(data_diary_id, error, fetchOk) ==
    /\ editingAllotment = 0 => nextAllotmentId <= MaxAllotments
    /\ LET table ==
             IF error # "" THEN diary_allotments
             ELSE IF editingAllotment # 0
             THEN UpdateAllotment(diary_allotments, editingAllotment,
                                  [diary_id |-> data_diary_id])
             ELSE diary_allotments \cup
                    {[id |-> nextAllotmentId, diary_id |-> data_diary_id,
                      status |-> "allotted", amount_collected |-> 0]}
       IN  /\ diary_allotments' = table
           /\ nextAllotmentId' = IF error = "" /\ editingAllotment = 0
                                 THEN nextAllotmentId + 1 ELSE nextAllotmentId
           /\ IF error = "23505"
              THEN /\ toast' = Toast("This diary is already allotted to an issuer")
                   /\ UNCHANGED <<allotments, lockedRecords, editingAllotment>>
              ELSE IF error # ""
              THEN /\ toast' = Toast("Failed to save allotment")
                   /\ UNCHANGED <<allotments, lockedRecords, editingAllotment>>
              ELSE /\ editingAllotment' = 0
                   /\ Refetched(fetchOk, table, allotments, lockedRecords,
                                IF editingAllotment # 0
                                THEN "Allotment updated successfully"
                                ELSE "Diary allotted successfully")
    /\ UNCHANGED <<lottery_winners, nextId, lastOp, session, lotteryNumber, diaryNumber,
                   range, salesVars>>

\* window.confirm answered with OK
handleDeleteAllotment(allotmentId, error, fetchOk) ==
    /\ LET table == IF error # "" THEN diary_allotments
                    ELSE {a \in diary_allotments : a.id # allotmentId}
       IN  /\ diary_allotments' = table
           /\ IF error # ""
              THEN /\ toast' = Toast("Failed to delete allotment")
                   /\ UNCHANGED <<allotments, lockedRecords>>
              ELSE Refetched(fetchOk, table, allotments, lockedRecords,
                             "Allotment deleted successfully")
    /\ UNCHANGED <<lottery_winners, nextId, lastOp, session, lotteryNumber, diaryNumber,
                   range, salesVars, nextAllotmentId, editingAllotment>>

\* the status <select> of a listed allotment, disabled while the allotment
\* is paid and locked
shouldDisableStatusChange(allotment) ==
    allotment.status = "paid" /\ allotment.id \in lockedRecords

updateAllotmentStatus(allotmentId, status, error, fetchOk) ==
    /\ \E allotment \in allotments :
          allotment.id = allotmentId /\ ~shouldDisableStatusChange(allotment)
    /\ LET locks == IF status = "paid" THEN lockedRecords \cup {allotmentId}
                    ELSE lockedRecords \ {allotmentId}
           table == IF error # "" THEN diary_allotments
                    ELSE UpdateAllotment(diary_allotments, allotmentId, updateData(status))
       IN  /\ diary_allotments' = table
           /\ IF error # ""
              THEN /\ toast' = Toast("Failed to update status")
                   /\ lockedRecords' = locks
                   /\ UNCHANGED allotments
              ELSE Refetched(fetchOk, table,
                             UpdateAllotment(allotments, allotmentId, updateData(status)),
                             locks,
                             IF status = "paid"
                             THEN "Status updated, amount collected set, record locked"
                             ELSE "Status updated and amount collected reset")
    /\ UNCHANGED <<lottery_winners, nextId, lastOp, session, lotteryNumber, diaryNumber,
                   range, salesVars, nextAllotmentId, editingAllotment>>

toggleLock(allotmentId) ==
    /\ lockedRecords' = IF allotmentId \in lockedRecords
                        THEN lockedRecords \ {allotmentId}
                        ELSE lockedRecords \cup {allotmentId}
    /\ toast' = Toast(IF allotmentId \in lockedRecords THEN "Record unlocked"
                      ELSE "Record locked")
    /\ UNCHANGED <<lottery_winners, nextId, lastOp, session, lotteryNumber, diaryNumber,
                   range, salesVars, diary_allotments, nextAllotmentId, allotments,
                   editingAllotment>>

-----
(* Specifications                                                          *)

InitStore ==
    /\ lottery_winners = {}
    /\ nextId = 1
    /\ lastOp = NoStatement
    /\ session = [s \in Sessions |-> Idle({})]
    /\ toast = NoToast

InitNumbering ==
    /\ diaryNumber = 0
    /\ range = NoRange

\* the ticket page before its first fetch, the table ticket_sales empty
InitSales ==
    /\ watchedLotteryNumber = <<>>
    /\ diary_id = 0
    /\ editingTicket = 0
    /\ diaries = 0
    /\ sales = {}
    /\ nextSaleId = 1
    /\ lastSaleOp = NoStatement

\* the diary page before its first fetch, the table diary_allotments empty
InitAllotments ==
    /\ diary_allotments = {}
    /\ nextAllotmentId = 1
    /\ allotments = {}
    /\ lockedRecords = {}
    /\ editingAllotment = 0

Init ==
    /\ InitStore
    /\ InitNumbering
    /\ InitSales
    /\ InitAllotments
    /\ lotteryNumber = 1

\* the table under arbitrary statements
Next ==
    \/ \E n \in StoreNumbers, t \in TextColumns : InsertRow(ProposedRow(n, t))
    \/ \E id \in 1 .. MaxId, n \in StoreNumbers, t \in TextColumns :
          UpdateRow(id, ProposedSet(n, t))
    \/ \E id \in 1 .. MaxId : DeleteRow(id)

Spec == Init /\ [][Next]_vars

\* the table under the application's sessions
NextApp ==
    \/ \E s \in Sessions : Mount(s)
    \/ \E s \in Sessions, ticket \in ticket_sales, p \in SelectablePrizes, ok \in BOOLEAN :
          registerWinner(s, ticket, p, ok)
    \/ \E s \in Sessions : registerWinnerInsert(s)
    \/ \E s \in Sessions, ok \in BOOLEAN : registerWinnerRefresh(s, ok)
    \/ \E id \in KnownIds, f \in EditForms : handleSaveEdit(id, f)
    \/ \E id \in KnownIds : handleDelete(id)

\* the rows of ticket_sales behind the sales the Search page lists
ListedSales ==
    { [id |-> t.id, lottery_number |-> t.lottery_number,
       diary_id |-> IF t.diary THEN getDiaryFromLotteryNumber(t.lottery_number) ELSE 0] :
      t \in ticket_sales }

\* no winner yet; table ticket_sales holds the sales the Search page lists
InitApp ==
    /\ InitStore
    /\ InitNumbering
    /\ lotteryNumber = 1
    /\ watchedLotteryNumber = <<>>
    /\ diary_id = 0
    /\ editingTicket = 0
    /\ diaries = 0
    /\ sales = ListedSales
    /\ nextSaleId = Cardinality(ticket_sales) + 1
    /\ lastSaleOp = NoStatement
    /\ InitAllotments

SpecApp == InitApp /\ [][NextApp]_vars

\* registrations strictly one at a time (a call starts when no other is in
\* flight), every quantity query answered, no winner edited
NextSequential ==
    \/ \E s \in Sessions : Mount(s)
    \/ \E s \in Sessions, ticket \in ticket_sales, p \in SelectablePrizes :
          /\ \A s2 \in Sessions : session[s2].pc = "idle"
          /\ registerWinner(s, ticket, p, TRUE)
    \/ \E s \in Sessions : registerWinnerInsert(s)
    \/ \E s \in Sessions, ok \in BOOLEAN : registerWinnerRefresh(s, ok)
    \/ \E id \in KnownIds : handleDelete(id)

SpecSequential == InitApp /\ [][NextSequential]_vars

\* the numbering functions on every ticket number: the number is typed and
\* its diary (found, and allotted) fills the form
TOTAL_TICKETS == 39999

InitNumbers ==
    /\ InitStore
    /\ InitNumbering
    /\ InitSales
    /\ InitAllotments
    /\ lotteryNumber \in 1 .. TOTAL_TICKETS

NextNumbers ==
    \/ TypeLotteryNumber(lotteryNumber)
    \/ handleLotteryNumberChange(TRUE, TRUE)
    \/ LookupRange

SpecNumbers == InitNumbers /\ [][NextNumbers]_vars

\* the ticket page: sales entered, edited and deleted
NextSales ==
    \/ \E answer \in FetchAnswers : fetchData(answer)
    \/ \E n \in SaleNumbers : TypeLotteryNumber(n)
    \/ \E serverOk \in BOOLEAN, allotted \in BOOLEAN :
          handleLotteryNumberChange(serverOk, allotted)
    \/ \E d \in FormDiaries : handleDiarySelect(d)
    \/ \E ticket \in sales : handleEdit(ticket)
    \/ handleCancel
    \/ \E answer \in FetchAnswers : onSubmit(answer)
    \/ \E id \in 1 .. MaxId, answer \in FetchAnswers : handleDeleteSale(id, answer)

SpecSales == Init /\ [][NextSales]_vars

\* the diary page: diaries allotted, their status changed, locked, deleted
NextAllotments ==
    \/ \E fetchOk \in BOOLEAN : fetchDataAllotments(fetchOk)
    \/ \E allotment \in allotments : handleEditAllotment(allotment)
    \/ \E d \in AllotmentDiaries, error \in AllotmentErrors, fetchOk \in BOOLEAN :
          onSubmitAllotment(d, error, fetchOk)
    \/ \E allotment \in allotments, error \in AllotmentErrors, fetchOk \in BOOLEAN :
          handleDeleteAllotment(allotment.id, error, fetchOk)
    \/ \E allotment \in allotments, status \in Statuses, error \in AllotmentErrors,
          fetchOk \in BOOLEAN :
          updateAllotmentStatus(allotment.id, status, error, fetchOk)
    \/ \E allotment \in allotments : toggleLock(allotment.id)

SpecAllotments == Init /\ [][NextAllotments]_vars

-----------------------------------------------------------------------------
(* Properties                                                              *)

\* C1: in every reachable state of the winners table, whatever statements
\* were accepted or rejected before, no two rows have the same lottery_number.
C1_UniqueLotteryNumber ==
    \A w1 \in lottery_winners, w2 \in lottery_winners :
        w1.lottery_number = w2.lottery_number => w1 = w2

\* a second row for a number was refused by the unique index
C1_Witness ==
    /\ lastOp = Statement("insert", unique_violation)
    /\ Cardinality(lottery_winners) = 1

PendingOn(s, n) ==
    session[s].pc = "insert" /\ session[s].ticket.lottery_number = n

\* the step is the insert of session s reaching the table
InsertStep(s) == session[s].pc = "insert" /\ session'[s].pc # "insert"

\* C2: of the inserts for one lottery number that race, the one that reaches
\* the table while it holds no row for the number is committed and leaves
\* every other pending; one that reaches it when a row for the number exists is
\* rejected with the unique violation (23505), changes nothing and is reported
\* as 'has already won a prize', not as a generic failure.
C2_ConcurrentInserts ==
    [][\A s1 \in Sessions : InsertStep(s1) =>
          LET n == session[s1].ticket.lottery_number
          IN  IF n \in LotteryNumbers(lottery_winners)
              THEN /\ lastOp' = Statement("insert", unique_violation)
                   /\ lottery_winners' = lottery_winners
                   /\ toast' = Toast("has already won a prize")
                   /\ session'[s1].pc = "refresh"
              ELSE /\ lastOp' = Statement("insert", NoError)
                   /\ lottery_winners \subseteq lottery_winners'
                   /\ Cardinality({w \in lottery_winners' : w.lottery_number = n}) = 1
                   /\ toast' = Toast("Winner registered")
                   /\ \A s2 \in Sessions \ {s1} :
                         PendingOn(s2, n) => session'[s2] = session[s2]]_vars

\* a session lost the race: its insert was refused for a number it did not
\* know to have won, which another session knows as a winner
C2_Witness ==
    \E s1 \in Sessions, s2 \in Sessions :
        /\ s1 # s2
        /\ session[s1].pc = "refresh"
        /\ lastOp = Statement("insert", unique_violation)
        /\ toast = Toast("has already won a prize")
        /\ session[s1].ticket.lottery_number \notin session[s1].existingWinners
        /\ session[s1].ticket.lottery_number \in session[s2].existingWinners

\* C3: in every reachable state no prize category has more winner rows than
\* its total quantity, whatever registerWinner, handleSaveEdit and handleDelete
\* did before.
C3_CategoryCeiling ==
    \A i \in DOMAIN PRIZE_CATEGORIES :
        Cardinality({w \in lottery_winners :
                        w.prize_category = PRIZE_CATEGORIES[i].name})
            <= PRIZE_CATEGORIES[i].quantity

Whitespace == {SP, TAB}

\* null, empty, or white space only
BlankText(x) == x = NULL \/ \A i \in 1 .. Len(x) : x[i] \in Whitespace

\* x with its leading and trailing white space removed
Stripped(x) == StripRight(StripLeft(x, Whitespace), Whitespace)

\* C4: in every reachable state every row's winner_name, winner_contact and
\* prize_category is non-null, non-empty and has no leading or trailing
\* white space.
C4_RequiredFieldsTrimmed ==
    \A w \in lottery_winners :
        \A x \in {w.winner_name, w.winner_contact, w.prize_category} :
            ~BlankText(x) /\ Stripped(x) = x

ImmutableFieldViolation == Raise("lottery_number cannot be changed")

MissingRequiredField ==
    { Raise("winner_name is required and cannot be empty"),
      Raise("winner_contact is required and cannot be empty"),
      Raise("prize_category is required and cannot be empty"),
      Raise("winner_name cannot be NULL or empty"),
      Raise("winner_contact cannot be NULL or empty"),
      Raise("prize_category cannot be NULL or empty") }

\* the step is UPDATE ... SET lottery_number = n, <t> WHERE id = id on an
\* existing row whose lottery_number is not n
ChangesNumber(id, n, t) ==
    /\ lastOp'.kind = "update"
    /\ \E w \in lottery_winners : w.id = id /\ w.lottery_number # n
    /\ UpdateRow(id, ProposedSet(n, t))

\* C5 as stated: every update of an existing row that proposes another
\* lottery_number is rejected with the immutable-field violation and the row
\* keeps its number.
C5_AlwaysImmutableViolation ==
    [][\A id \in 1 .. MaxId, n \in StoreNumbers, t \in TextColumns :
          ChangesNumber(id, n, t) =>
              /\ lastOp'.error = ImmutableFieldViolation
              /\ lottery_winners' = lottery_winners]_vars

\* what the trigger's emptiness checks refuse: NULL, or nothing but spaces
FailsEmptinessCheck(x) == x = NULL \/ \A i \in 1 .. Len(x) : x[i] = SP

\* C5: every update of an existing row that proposes another lottery_number
\* is rejected and changes nothing: with the immutable-field violation when
\* the three required fields pass the emptiness checks, and with the
\* missing-required-field error, which is checked first, when one does not.
\* So no row's lottery_number changes between its insert and its delete.
C5_NumberImmutable ==
    /\ [](\A w \in lottery_winners, n \in StoreNumbers, t \in TextColumns :
             w.lottery_number # n =>
                 LET r == update(lottery_winners, w.id, ProposedSet(n, t))
                 IN  /\ r.rows = lottery_winners
                     /\ IF \/ FailsEmptinessCheck(t.winner_name)
                           \/ FailsEmptinessCheck(t.winner_contact)
                           \/ FailsEmptinessCheck(t.prize_category)
                        THEN r.error \in MissingRequiredField
                        ELSE r.error = ImmutableFieldViolation)
    /\ [][\A w \in lottery_winners, v \in lottery_winners' :
             w.id = v.id => w.lottery_number = v.lottery_number]_vars

\* an update that proposed another lottery_number was refused for it
C5_Witness ==
    /\ lastOp = Statement("update", ImmutableFieldViolation)
    /\ lottery_winners # {}

\* C6: an insert whose winner_name, winner_contact or prize_category is null,
\* empty or white space only is rejected with a missing-required-field error
\* and adds no row.
C6_InsertRejectsBlank ==
    [][\A n \in StoreNumbers, t \in TextColumns :
          ( /\ InsertRow(ProposedRow(n, t))
            /\ \/ BlankText(t.winner_name)
               \/ BlankText(t.winner_contact)
               \/ BlankText(t.prize_category) )
          => /\ lastOp'.error \in MissingRequiredField
             /\ lottery_winners' = lottery_winners]_vars

\* C7: an update of an existing row whose proposed winner_name, winner_contact
\* or prize_category is null, empty or white space only is rejected with a
\* missing-required-field error; the stored row keeps its three fields.
C7_UpdateRejectsBlank ==
    [][\A id \in 1 .. MaxId, n \in StoreNumbers, t \in TextColumns :
          ( /\ UpdateRow(id, ProposedSet(n, t))
            /\ \E w \in lottery_winners : w.id = id
            /\ \/ BlankText(t.winner_name)
               \/ BlankText(t.winner_contact)
               \/ BlankText(t.prize_category) )
          => /\ lastOp'.error \in MissingRequiredField
             /\ lottery_winners' = lottery_winners]_vars

\* the row w holds the text t with its white space stripped, NULL kept
StoredStripped(w, t) ==
    /\ w.winner_name = Stripped(t.winner_name)
    /\ w.winner_contact = Stripped(t.winner_contact)
    /\ w.prize_category = Stripped(t.prize_category)
    /\ w.winner_address = IF t.winner_address = NULL THEN NULL
                          ELSE Stripped(t.winner_address)
    /\ w.notes = IF t.notes = NULL THEN NULL ELSE Stripped(t.notes)

\* t with winner_address and notes filled in
WithOptional(t) == [t EXCEPT !.winner_address = <<"A">>, !.notes = <<"A">>]

\* C8: every accepted insert or update stores the three required fields and,
\* when non-null, winner_address and notes with leading and trailing white
\* space removed, keeps a null winner_address or notes null, and no write is
\* rejected for its winner_address or notes (the outcome is that of the same
\* write with both filled in).
C8_StoresTrimmed ==
    [][/\ \A n \in StoreNumbers, t \in TextColumns :
             InsertRow(ProposedRow(n, t)) =>
                 /\ lastOp'.error = NoError =>
                       \E w \in lottery_winners' :
                           w.id = nextId /\ StoredStripped(w, t)
                 /\ lastOp'.error =
                       insert(lottery_winners,
                              [ProposedRow(n, WithOptional(t)) EXCEPT !.id = nextId]).error
       /\ \A id \in 1 .. MaxId, n \in StoreNumbers, t \in TextColumns :
             ( UpdateRow(id, ProposedSet(n, t))
               /\ \E w \in lottery_winners : w.id = id ) =>
                 /\ lastOp'.error = NoError =>
                       \E w \in lottery_winners' :
                           w.id = id /\ StoredStripped(w, t)
                 /\ lastOp'.error =
                       update(lottery_winners, id,
                              ProposedSet(n, WithOptional(t))).error]_vars

\* C9: a rejected insert or update, whatever the reason, leaves the table
\* exactly as it was: no row added, no field of any row changed.
C9_RejectionChangesNothing ==
    [][lastOp'.error # NoError => lottery_winners' = lottery_winners]_vars

\* an insert or an update was rejected while the table held a row
C9_Witness ==
    /\ lastOp.kind \in {"insert", "update"}
    /\ lastOp.error # NoError
    /\ lottery_winners # {}

\* C10: for every ticket number n in 1..39999 the range of the diary of n
\* contains n.
C10_RangeContainsTicket ==
    range # [start |-> 0, end |-> 0] =>
        /\ diaryNumber = getDiaryFromLotteryNumber(lotteryNumber)
        /\ range.start <= lotteryNumber
        /\ lotteryNumber <= range.end

\* the range of the last, short diary was looked up for ticket 39999
C10_Witness ==
    /\ lotteryNumber = 39999
    /\ range = [start |-> 39997, end |-> 39999]

InRange(n, r) == r.start <= n /\ n <= r.end

\* C11: the ranges of the diaries 1..1819 partition 1..39999: the ticket
\* number lies in the range of exactly one diary (its own), the range lies
\* within 1..39999, and the range of the next diary starts one after its end.
C11_RangesPartition ==
    range # NoRange =>
        /\ {d \in 1 .. 1819 : InRange(lotteryNumber, getTicketRangeForDiary(d))}
              = {diaryNumber}
        /\ 1 <= range.start /\ range.end <= TOTAL_TICKETS
        /\ diaryNumber <= 1818 =>
              getTicketRangeForDiary(diaryNumber + 1).start = range.end + 1

\* the range of diary 1818, the last one followed by another, was looked up
C11_Witness ==
    /\ diaryNumber = 1818
    /\ range = [start |-> 39975, end |-> 39996]

\* C12: the range of every diary 1..1818 holds exactly 22 ticket numbers;
\* only diary 1819 holds fewer, and its range is exactly 39997..39999.
C12_DiarySizes ==
    range # NoRange =>
        LET size == range.end - range.start + 1
        IN  /\ diaryNumber <= 1818 => size = 22
            /\ size < 22 => diaryNumber = 1819
            /\ diaryNumber = 1819 =>
                  size = 3 /\ range = [start |-> 39997, end |-> 39999]

\* the range of the short diary was looked up for its middle ticket
C12_Witness ==
    /\ lotteryNumber = 39998
    /\ diaryNumber = 1819
    /\ range.end - range.start = 2

\* C13: for every n in 1..39999 the diary computed for n is in 1..1819; it
\* is ceil(n / 22), the least k with n <= 22 * k, for n <= 39996 and 1819
\* for 39997, 39998 and 39999.
C13_DiaryOfTicket ==
    diaryNumber # 0 =>
        /\ diaryNumber \in 1 .. 1819
        /\ lotteryNumber <= 39996 =>
              /\ lotteryNumber <= 22 * diaryNumber
              /\ lotteryNumber > 22 * (diaryNumber - 1)
        /\ lotteryNumber \in 39997 .. 39999 => diaryNumber = 1819

\* the diary of a ticket that ends a diary was computed
C13_Witness ==
    /\ lotteryNumber = 44
    /\ diaryNumber = 2
    /\ watchedLotteryNumber = <<"0", "0", "0", "4", "4">>

\* C14: the diary computed for n is at most the diary of every larger ticket
\* number up to MaxGap further (so, by transitivity, of every larger one),
\* also from 39996 to 39997.
C14_NonDecreasing ==
    diaryNumber # 0 =>
        \A n2 \in (lotteryNumber + 1) .. (lotteryNumber + MaxGap) :
            n2 <= TOTAL_TICKETS => diaryNumber <= getDiaryFromLotteryNumber(n2)

\* the diary of 39996 was computed, to compare with those of 39997..39999
C14_Witness ==
    /\ lotteryNumber = 39996
    /\ diaryNumber = 1818
    /\ range = NoRange

\* the step is onSubmit for a diary the page's array holds
SubmitWithKnownDiary ==
    /\ diary_id # 0 /\ diary_id <= diaries
    /\ \/ lastSaleOp'.kind \in {"insert", "update"}
       \/ toast' = Toast("Lottery number is not valid for diary")
    /\ \E answer \in FetchAnswers : onSubmit(answer)

\* C15: validateLotteryNumberForDiary(t, d), as onSubmit applies it to the
\* number and the diary of the form, is true exactly when t is one of the
\* numbers start..end of getTicketRangeForDiary(d): the submission is refused
\* as not valid for the diary exactly when it is not.
C15_ValidateIffInRange ==
    [][SubmitWithKnownDiary =>
          LET t == parseLotteryNumber(watchedLotteryNumber)
              r == getTicketRangeForDiary(diary_id)
          IN  /\ validateLotteryNumberForDiary(t, diary_id) <=> t \in r.start .. r.end
              /\ toast' = Toast("Lottery number is not valid for diary")
                    <=> t \notin r.start .. r.end]_vars

\* a ticket that ends its diary was saved with it, and the diary was known
C15_Witness ==
    /\ lastSaleOp = Statement("insert", NoError)
    /\ diaries = 1819
    /\ \E r \in sales : r.lottery_number = 22 /\ r.diary_id = 1

\* C16: for every n in 1..39999 the text typed for n, formatLotteryNumber(n),
\* has five digits and parseLotteryNumber reads n back from it.
C16_FormatParseRoundTrip ==
    watchedLotteryNumber # <<>> =>
        /\ Len(watchedLotteryNumber) = 5
        /\ \A i \in 1 .. 5 : IsDigit(watchedLotteryNumber[i], 10)
        /\ parseLotteryNumber(watchedLotteryNumber) = lotteryNumber

\* a number with the digits 8 and 9 was typed with its leading zeros
C16_Witness ==
    /\ lotteryNumber = 89
    /\ watchedLotteryNumber = <<"0", "0", "0", "8", "9">>

\* the form holds a number that is not in the range of the diary it holds
FormInconsistent ==
    /\ FormValid
    /\ ~InRange(parseLotteryNumber(watchedLotteryNumber), getTicketRangeForDiary(diary_id))

\* C17: onSubmit refuses every form whose lottery number is outside the range
\* of its diary: no insert or update is sent to ticket_sales and the table is
\* unchanged.
C17_SubmitRejectsInconsistent ==
    [][\A answer \in FetchAnswers :
          (FormInconsistent /\ onSubmit(answer)) =>
              lastSaleOp' = NoStatement /\ sales' = sales]_vars

\* C18: no step changes the lottery_number of a row of ticket_sales.
C18_TicketNumberImmutable ==
    [][\A r1 \in sales, r2 \in sales' :
          r1.id = r2.id => r1.lottery_number = r2.lottery_number]_vars

\* the edit form holds an empty or white-space-only required field
EditFormBlank(f) ==
    BlankText(f.winner_name) \/ BlankText(f.winner_contact) \/ BlankText(f.prize_category)

\* C19: when the edited winner_name, winner_contact or prize_category is
\* empty or white space only, handleSaveEdit sends no update to the store and
\* shows an error message.
C19_SaveEditValidatesFirst ==
    [][\A id \in 1 .. MaxId, f \in EditForms :
          (id \in KnownIds /\ EditFormBlank(f) /\ handleSaveEdit(id, f)) =>
              /\ lastOp' = NoStatement
              /\ toast' \notin {NoToast, Toast("Winner entry updated successfully")}]_vars

\* the ticket's purchaser_name or purchaser_contact is missing, empty or
\* white space only
BlankPurchaser(ticket) ==
    BlankText(ticket.purchaser_name) \/ BlankText(ticket.purchaser_contact)

\* C20: for a ticket whose purchaser_name or purchaser_contact is missing,
\* empty or white space only, registerWinner issues no insert and the winners
\* table stays as it is: no session ever holds an insert for such a ticket
\* and no row of the table comes from one.
C20_RegisterChecksPurchaser ==
    /\ \A s \in Sessions :
          session[s].pc = "insert" => ~BlankPurchaser(session[s].ticket)
    /\ \A w \in lottery_winners, ticket \in ticket_sales :
          w.ticket_sale_id = ticket.id => ~BlankPurchaser(ticket)

\* a ticket without a purchaser contact was refused while the table held a
\* winner
C20_Witness ==
    /\ toast = Toast("purchaser contact is missing or empty")
    /\ lastOp = NoStatement
    /\ lottery_winners # {}

\* the step is the re-fetch of session s after its refused insert
RefreshStep(s) == session[s].pc = "refresh" /\ session'[s].pc = "idle"

\* the statement of C21 as it stands: the re-fetch after a duplicate error
\* always leaves the session with the numbers of the table, the refused
\* number among them
C21_RefreshAlwaysCurrent ==
    [][\A s \in Sessions : RefreshStep(s) =>
          /\ session'[s].existingWinners = LotteryNumbers(lottery_winners)
          /\ session[s].ticket.lottery_number \in session'[s].existingWinners]_vars

\* C21: an insert refused with the unique violation is followed by the
\* re-fetch of the winners; when the re-fetch answers, the session's
\* existingWinners is the set of lottery numbers in the table at that moment
\* and when it fails existingWinners stays as it was; no session ever sends an
\* insert for a number in its existingWinners (registerWinner refuses it
\* locally).
C21_RefreshWhenAnswered ==
    /\ [][\A s \in Sessions :
            /\ InsertStep(s) /\ lastOp'.error = unique_violation
                   => session'[s].pc = "refresh"
            /\ \A ok \in BOOLEAN : registerWinnerRefresh(s, ok) =>
                   session'[s].existingWinners =
                       IF ok THEN LotteryNumbers(lottery_winners)
                       ELSE session[s].existingWinners]_vars
    /\ [](\A s \in Sessions : session[s].pc = "insert" =>
             session[s].ticket.lottery_number \notin session[s].existingWinners)

\* the re-fetch after a refused insert has just answered: the session that
\* lost the race now knows the winners of the table
C21_Witness ==
    /\ lastOp = Statement("insert", unique_violation)
    /\ toast = Toast("has already won a prize")
    /\ \A s \in Sessions : session[s].pc = "idle"
    /\ \E s \in Sessions : session[s].existingWinners = LotteryNumbers(lottery_winners)
    /\ lottery_winners # {}

\* C22: when registerWinner is refused because the selected category has no
\* quantity remaining (QuantityExceeded), the session goes on to the re-fetch
\* of the current winners before it can try again.
C22_RefreshAfterQuantityExceeded ==
    [][\A s \in Sessions, ticket \in ticket_sales, p \in PrizeNames :
          /\ toast' = Toast("No prizes remaining")
          /\ registerWinner(s, ticket, p, TRUE)
          => session'[s].pc = "refresh"]_vars

\* C23: the row a successful registerWinner(ticket) adds has the ticket's
\* lottery_number, the ticket's id as ticket_sale_id, the purchaser's name and
\* contact without leading and trailing white space as winner_name and
\* winner_contact, the purchaser's address without them, or null when nothing
\* is left of it, as winner_address, and the selected category as
\* prize_category.
C23_WinnerRowFromTicket ==
    [][\A s \in Sessions :
          InsertStep(s) /\ lastOp' = Statement("insert", NoError) =>
              LET ticket == session[s].ticket
                  added == lottery_winners' \ lottery_winners
              IN  /\ Cardinality(added) = 1
                  /\ \A w \in added :
                        /\ w.lottery_number = ticket.lottery_number
                        /\ w.ticket_sale_id = ticket.id
                        /\ w.winner_name = Stripped(ticket.purchaser_name)
                        /\ w.winner_contact = Stripped(ticket.purchaser_contact)
                        /\ w.winner_address =
                              IF BlankText(ticket.purchaser_address) THEN NULL
                              ELSE Stripped(ticket.purchaser_address)
                        /\ w.prize_category = session[s].prize]_vars

\* the ticket with a padded contact and an address of one space was
\* registered: the row has the contact stripped and no address
C23_Witness ==
    /\ lastOp = Statement("insert", NoError)
    /\ \E w \in lottery_winners :
          /\ w.ticket_sale_id = 2
          /\ w.lottery_number = 23
          /\ w.winner_contact = <<"A">>
          /\ w.winner_address = NULL

\* C24: handleDelete(id) removes from lottery_winners exactly the row with
\* that id: every other winner row and every row of ticket_sales is as
\* before.
C24_DeleteOnlyThatRow ==
    [][\A id \in KnownIds :
          lastOp'.kind = "delete" /\ handleDelete(id) =>
              /\ \A w \in lottery_winners' : w.id # id /\ w \in lottery_winners
              /\ \A w \in lottery_winners : w.id # id => w \in lottery_winners'
              /\ sales' = sales]_vars

\* one of two winner rows was deleted, the other is still there, and so are
\* the ticket sales
C24_Witness ==
    /\ lastOp = Statement("delete", NoError)
    /\ toast = Toast("Winner entry deleted successfully")
    /\ nextId = 3
    /\ Cardinality(lottery_winners) = 1
    /\ sales = ListedSales

\* the columns the edit form of the Winners page sends
EditedColumns ==
    {"prize_category", "winner_name", "winner_contact", "winner_address", "notes"}

\* C25: the update handleSaveEdit sends names prize_category, winner_name,
\* winner_contact, winner_address and notes only, never lottery_number; an
\* accepted edit leaves the row's lottery_number, ticket_sale_id and
\* diary_number as they were and changes no other row.
C25_EditKeepsIdentity ==
    [][lastOp'.kind = "update" =>
          /\ \A f \in EditForms : DOMAIN f = EditedColumns
          /\ Cardinality(lottery_winners') = Cardinality(lottery_winners)
          /\ Cardinality(lottery_winners \ lottery_winners') <= 1
          /\ \A w \in lottery_winners : \E v \in lottery_winners' :
                /\ v.id = w.id
                /\ v.lottery_number = w.lottery_number
                /\ v.ticket_sale_id = w.ticket_sale_id
                /\ v.diary_number = w.diary_number]_vars

\* an accepted edit moved the winner of ticket 22 to another category: the
\* row still names ticket 22, its sale and its diary
C25_Witness ==
    /\ lastOp = Statement("update", NoError)
    /\ \E w \in lottery_winners :
          /\ w.prize_quantity # getPrizeQuantity(w.prize_category)
          /\ w.lottery_number = 22
          /\ w.ticket_sale_id = 1
          /\ w.diary_number = 1

WinnersOf(prizeName) ==
    Cardinality({w \in lottery_winners : w.prize_category = prizeName})

\* C26: when registerWinner calls run strictly one at a time, every quantity
\* query answers and no winner is edited, no category ever has more winner
\* rows than its quantity, and no insert is sent for a category that has
\* reached its quantity.
C26_SequentialCeiling ==
    /\ \A i \in DOMAIN PRIZE_CATEGORIES :
          WinnersOf(PRIZE_CATEGORIES[i].name) <= PRIZE_CATEGORIES[i].quantity
    /\ \A s \in Sessions : session[s].pc = "insert" =>
          \E i \in DOMAIN PRIZE_CATEGORIES :
              /\ PRIZE_CATEGORIES[i].name = session[s].prize
              /\ WinnersOf(session[s].prize) < PRIZE_CATEGORIES[i].quantity

\* the single car has a winner and a registration for it was refused
C26_Witness ==
    /\ toast = Toast("No prizes remaining")
    /\ \A s \in Sessions : session[s].pc = "idle"
    /\ \E i \in DOMAIN PRIZE_CATEGORIES :
          /\ PRIZE_CATEGORIES[i].quantity = 1
          /\ WinnersOf(PRIZE_CATEGORIES[i].name) = 1

\* C27: in every reachable state every winner row's prize_quantity is the
\* quantity PRIZE_CATEGORIES gives for the row's prize_category, whatever
\* registerWinner and handleSaveEdit did before.
C27_QuantityOfCategory ==
    \A w \in lottery_winners :
        \E i \in DOMAIN PRIZE_CATEGORIES :
            /\ PRIZE_CATEGORIES[i].name = w.prize_category
            /\ PRIZE_CATEGORIES[i].quantity = w.prize_quantity

\* the form was just filled for the number typed
AutoFilled == diaryNumber # 0 /\ toast = Toast("Auto-filled diary details")

C29_GuardsAgree ==
    \A old \in lottery_winners, t \in TextColumns :
        LET new == Assign(old, ProposedSet(old.lottery_number, t))
            i == validate_winner_data_on_insert(new)
            u == prevent_winner_data_loss(old, new)
        IN  /\ (i.error = NoError) <=> (u.error = NoError)
            /\ i.error = NoError =>
                  /\ i.row = u.row
                  /\ validate_winner_data_on_insert(i.row) = Return(i.row)
                  /\ prevent_winner_data_loss(old, u.row) = Return(u.row)

\* a row inserted through one guard was updated through the other, which
\* stripped the spaces around its name
C29_Witness ==
    /\ lastOp = Statement("update", NoError)
    /\ \E w \in lottery_winners :
          /\ w.winner_name = <<"A">>
          /\ w.winner_address = <<"A">>
          /\ w.lottery_number \in StoreNumbers

\* the amount collected goes with the status
AmountByStatus(a) ==
    /\ a.amount_collected = PAID_AMOUNT <=> a.status = "paid"
    /\ a.status \in {"allotted", "fully_sold", "returned"} => a.amount_collected = 0

\* C30: every diary allotment, in the table and in the page's array, has
\* amount_collected = 11000 exactly when its status is 'paid' and 0 when its
\* status is 'allotted', 'fully_sold' or 'returned'; a status change away from
\* 'paid' leaves the amount at 0.
C30_AmountFollowsStatus ==
    /\ [](\A a \in diary_allotments \cup allotments : AmountByStatus(a))
    /\ [][\A a \in diary_allotments, b \in diary_allotments' :
            a.id = b.id /\ a.status = "paid" /\ b.status # "paid"
                => a.amount_collected = PAID_AMOUNT /\ b.amount_collected = 0]_vars

\* the allotment has just been moved to 'returned': nothing is collected
\* for it, it is not locked, and the page lists it as the table holds it
C30_Witness ==
    /\ toast = Toast("Status updated and amount collected reset")
    /\ \E a \in diary_allotments :
          /\ a.status = "returned" /\ a.amount_collected = 0
          /\ a.id \notin lockedRecords
          /\ a \in allotments

====
